---- MODULE Spec2Model ----
(***************************************************************************)
(* Model of the Banner course-schedule scraper, src/bscraper-compare.py.   *)
(*                                                                         *)
(* One run of BannerScraper.scrape_course_schedule is a sequential state   *)
(* machine: every HTTP request is one step, and the step carries the code  *)
(* that handles the response up to the next request (or up to the return   *)
(* or the escaping exception).  The remote service is the environment: the *)
(* response to a request is drawn with \E from the sets below.             *)
(*                                                                         *)
(* A Python dict is a TLA+ function whose DOMAIN is the set of its keys;   *)
(* the empty dict {} is the empty function <<>>.                           *)
(***************************************************************************)
EXTENDS Integers, Sequences, FiniteSets, TLC

(***************************************************************************)
(* Bounds of the model.                                                    *)
(***************************************************************************)
PageMaxSize == 2      \* page_max_size argument of search_courses
MaxPagesArg == 3      \* largest max_pages argument tried (0 stands for None)
MaxFetches  == 4      \* cap on page fetches when no ceiling stops the loop
MaxCourses  == 3      \* cap on the rows the service holds, in a whole run
MaxRows     == 6      \* cap on the rows the service holds, search alone
MaxSpans    == 4      \* most spans in an enrollment HTML fragment parsed alone
MaxFileRows == 2      \* most rows in a snapshot file given to the differ alone
MaxRuns     == 3      \* most completed runs of save_to_csv on one file
MaxMeetings == 2      \* most meetings in the meeting data normalized alone

(***************************************************************************)
(* Program constants.                                                      *)
(***************************************************************************)
MaxAttempts == 3      \* for attempt in range(3)

NullPath == "/StudentRegistrationSsb/ssb/null/null"
Host     == "https://nubanner.neu.edu"

EmptyDict == << >>

Get(d, k, default) == IF k \in DOMAIN d THEN d[k] ELSE default

(***************************************************************************)
(* HTTP responses.  net = "error" is a transport failure (the request      *)
(* raises a requests.RequestException and there is no response object).    *)
(* Otherwise the response has a status and a body.  A body is              *)
(*   [kind |-> "text"]                 not JSON: response.json() raises    *)
(*                                     a ValueError                         *)
(*   [kind |-> "json", obj |-> FALSE]  JSON that is not an object (a list,  *)
(*                                     a number, null)                      *)
(*   [kind |-> "json", obj |-> TRUE, dict |-> d]   a JSON object           *)
(***************************************************************************)
Statuses == {200, 204, 500}

NetError == [net |-> "error"]

NoResp == [net |-> "none"]

TextBody == [kind |-> "text"]

NonObjectBody == [kind |-> "json", obj |-> FALSE]

ObjectBody(d) == [kind |-> "json", obj |-> TRUE, dict |-> d]

Response(s, b) == [net |-> "ok", status |-> s, body |-> b]

\* response.raise_for_status(): HTTPError (a RequestException) for 4xx/5xx
RaisesForStatus(r) == r.status >= 400

\* the request itself, followed by raise_for_status(), raised
FailedRequest(r) == r.net = "error" \/ RaisesForStatus(r)

\* the request, raise_for_status() or response.json() raised a
\* RequestException.  A body that is not JSON makes response.json() raise
\* requests' JSONDecodeError, a RequestException and a ValueError.
FetchRaises(r) == FailedRequest(r) \/ r.body.kind = "text"

(***************************************************************************)
(* Bodies the term-declaration endpoint may answer with.  The JSON object  *)
(* has any combination of the keys success, regAllowed and fwdURL.         *)
(***************************************************************************)
FwdValues == {"", NullPath, "/StudentRegistrationSsb/ssb/term/x", "https://other/x"}

OptSuccess == {EmptyDict, [success |-> TRUE], [success |-> FALSE]}

OptRegAllowed == {EmptyDict, [regAllowed |-> FALSE]}

OptFwd == {EmptyDict} \cup {[fwdURL |-> u] : u \in FwdValues}

Merge(a, b) == [k \in DOMAIN a \cup DOMAIN b |-> IF k \in DOMAIN a THEN a[k] ELSE b[k]]

TermDicts == {Merge(s, Merge(g, f)) : s \in OptSuccess, g \in OptRegAllowed, f \in OptFwd}

TermBodies == {TextBody, NonObjectBody} \cup {ObjectBody(d) : d \in TermDicts}

PageResponses == {NetError} \cup {Response(s, TextBody) : s \in Statuses}

TermResponses == {NetError} \cup {Response(s, b) : s \in Statuses, b \in TermBodies}

(***************************************************************************)
(* Raw course rows and the bodies the course-search endpoint may answer    *)
(* with: an object with or without the keys success and data.              *)
(***************************************************************************)
CRNs == {"100", "200"}

RawCourses == {[courseReferenceNumber |-> c] : c \in CRNs}

RECURSIVE SeqsUpTo(_, _)
SeqsUpTo(S, n) ==
    IF n = 0 THEN {<< >>}
    ELSE LET shorter == SeqsUpTo(S, n - 1)
         IN  shorter \cup {Append(q, x) : q \in {t \in shorter : Len(t) = n - 1}, x \in S}

\* the pages the service may return once n rows are already accumulated
RowSeqs(n, cap) ==
    {q \in SeqsUpTo(RawCourses, PageMaxSize) : n + Len(q) <= cap}

SearchDicts(n, cap) ==
    {EmptyDict, [success |-> FALSE], [success |-> TRUE]}
        \cup {[success |-> TRUE, data |-> q] : q \in RowSeqs(n, cap)}

SearchResponses(n, cap) ==
    {NetError} \cup {Response(s, TextBody) : s \in Statuses}
        \cup {Response(200, NonObjectBody)}
        \cup {Response(s, ObjectBody(d)) : s \in {200, 500}, d \in SearchDicts(n, cap)}

\* result.get('success', False) or 'regAllowed' in result
SignalsSuccess(d) == Get(d, "success", FALSE) \/ "regAllowed" \in DOMAIN d

\* fwd_url and fwd_url != '/StudentRegistrationSsb/ssb/null/null'
FollowsForward(u) == u # "" /\ u # NullPath

StartsWithHttp(u) == Len(u) >= 4 /\ SubSeq(u, 1, 4) = "http"

\* the URL the forward GET is sent to
ForwardTarget(u) == IF StartsWithHttp(u) THEN u ELSE Host \o u

(***************************************************************************)
(* Record normalizer: the display fields derived from the meeting data.    *)
(***************************************************************************)
\* mutant: the days in the alphabetical order of their names
DayMapping_Alphabetical ==
    << <<"friday", "F">>, <<"monday", "M">>, <<"saturday", "S">>,
       <<"sunday", "U">>, <<"thursday", "R">>, <<"tuesday", "T">>,
       <<"wednesday", "W">> >>

DayMapping ==
    << <<"monday", "M">>, <<"tuesday", "T">>, <<"wednesday", "W">>,
       <<"thursday", "R">>, <<"friday", "F">>, <<"saturday", "S">>,
       <<"sunday", "U">> >>

RECURSIVE ActiveDays(_, _)
ActiveDays(meeting_time, k) ==
    IF k > Len(DayMapping) THEN ""
    ELSE (IF Get(meeting_time, DayMapping[k][1], FALSE) THEN DayMapping[k][2] ELSE "")
             \o ActiveDays(meeting_time, k + 1)

extract_days_of_week(meeting_time) ==
    IF meeting_time = EmptyDict THEN "TBA"
    ELSE LET active_days == ActiveDays(meeting_time, 1)
         IN  IF active_days # "" THEN active_days
             ELSE Get(meeting_time, "meetingTimeType", "TBA")

\* '; '.join(filter(lambda x: x != 'TBA', values)) or 'TBA'
RECURSIVE JoinKept(_)
JoinKept(values) ==
    IF values = << >> THEN ""
    ELSE LET rest == JoinKept(Tail(values))
         IN  IF Head(values) = "TBA" THEN rest
             ELSE IF rest = "" THEN Head(values)
             ELSE Head(values) \o "; " \o rest

\* "; ".join(values), for a list of non-empty strings
RECURSIVE JoinAll(_)
JoinAll(values) ==
    IF values = << >> THEN ""
    ELSE IF Len(values) = 1 THEN Head(values)
    ELSE Head(values) \o "; " \o JoinAll(Tail(values))

\* mutant: the "TBA" entries are joined with the others
JoinOrTBA_KeepsTBA(values) == IF JoinAll(values) = "" THEN "TBA" ELSE JoinAll(values)

JoinOrTBA(values) == IF JoinKept(values) = "" THEN "TBA" ELSE JoinKept(values)

MeetingTimeOf(meeting) == Get(meeting, "meetingTime", EmptyDict)

TimeOf(meeting_time) ==
    LET begin_time == Get(meeting_time, "beginTime", "")
        end_time   == Get(meeting_time, "endTime", "")
    IN  IF begin_time = "" THEN "TBA"
        ELSE IF end_time = "" THEN begin_time
        ELSE begin_time \o " - " \o end_time

CampusOf(meeting_time) ==
    IF Get(meeting_time, "campus", "") = "" THEN "TBA" ELSE meeting_time["campus"]

ClassroomOf(meeting_time) ==
    LET building             == Get(meeting_time, "building", "")
        building_description == Get(meeting_time, "buildingDescription", "")
        room                 == Get(meeting_time, "room", "")
        building_str == IF building_description # "" THEN building_description
                        ELSE building
    IN  IF building_str # "" /\ room # "" THEN building_str \o " " \o room
        ELSE IF building_str # "" THEN building_str
        ELSE IF room # "" THEN room
        ELSE "TBA"

DaysOfMeeting(meeting) == extract_days_of_week(MeetingTimeOf(meeting))

TimeOfMeeting(meeting) == TimeOf(MeetingTimeOf(meeting))

CampusOfMeeting(meeting) == CampusOf(MeetingTimeOf(meeting))

ClassroomOfMeeting(meeting) == ClassroomOf(MeetingTimeOf(meeting))

\* "not meeting_data or 'fmt' not in meeting_data"
NoMeetings(meeting_data) == "fmt" \notin DOMAIN meeting_data

parse_meeting_times_for_csv(meeting_data) ==
    IF NoMeetings(meeting_data)
       THEN [days |-> "TBA", time |-> "TBA", campus |-> "TBA", classroom |-> "TBA"]
       ELSE LET fmt == meeting_data["fmt"]
            IN  [days      |-> JoinOrTBA([k \in 1..Len(fmt) |-> DaysOfMeeting(fmt[k])]),
                 time      |-> JoinOrTBA([k \in 1..Len(fmt) |-> TimeOfMeeting(fmt[k])]),
                 campus    |-> JoinOrTBA([k \in 1..Len(fmt) |-> CampusOfMeeting(fmt[k])]),
                 classroom |-> JoinOrTBA([k \in 1..Len(fmt) |-> ClassroomOfMeeting(fmt[k])])]

InSeq(x, q) == \E k \in 1..Len(q) : q[k] = x

\* mutant: a name already collected is appended again
AddFaculty_KeepsDuplicates(instructors, faculty) ==
    instructors \o [k \in 1..Len(faculty) |-> Get(faculty[k], "displayName", "TBA")]

\* the display names of one faculty list, appended to instructors unless
\* already there
RECURSIVE AddFaculty(_, _)
AddFaculty(instructors, faculty) ==
    IF faculty = << >> THEN instructors
    ELSE LET name == Get(Head(faculty), "displayName", "TBA")
         IN  AddFaculty(IF InSeq(name, instructors) THEN instructors
                        ELSE Append(instructors, name),
                        Tail(faculty))

RECURSIVE CollectInstructors(_, _)
CollectInstructors(instructors, fmt) ==
    IF fmt = << >> THEN instructors
    ELSE CollectInstructors(
             IF "faculty" \in DOMAIN Head(fmt)
                THEN AddFaculty(instructors, Head(fmt)["faculty"])
                ELSE instructors,
             Tail(fmt))

extract_instructor(meeting_data) ==
    IF NoMeetings(meeting_data) THEN "TBA"
    ELSE LET instructors == CollectInstructors(<< >>, meeting_data["fmt"])
         IN  IF instructors = << >> THEN "TBA" ELSE JoinAll(instructors)

(***************************************************************************)
(* Enrollment detail.  An HTML fragment is the sequence of its spans, in   *)
(* document order, all siblings: a label span (class status-bold) names    *)
(* one of the six fields, a value span (dir="ltr") holds a text.  The      *)
(* empty fragment is the empty string.                                     *)
(***************************************************************************)
EnrollmentFields ==
    {"enrollment_actual", "enrollment_maximum", "enrollment_seats_available",
     "waitlist_capacity", "waitlist_actual", "waitlist_seats_available"}

EnrollmentDefaults == [f \in EnrollmentFields |-> "N/A"]

LabelSpan(f) == [span |-> "label", field |-> f]

ValueSpan(v) == [span |-> "value", text |-> v]

Digits == {"0", "1", "2", "3", "4", "5", "6", "7", "8", "9"}

\* the text matches \d+
IsNumber(v) == Len(v) > 0 /\ \A k \in 1..Len(v) : SubSeq(v, k, k) \in Digits

\* positions of the value spans after position k
ValuesAfter(html, k) == {j \in (k + 1)..Len(html) : html[j].span = "value"}

Min(S) == CHOOSE x \in S : \A y \in S : x <= y

\* span.find_next_sibling('span', attrs={'dir': 'ltr'}) for every label, in
\* document order; a later label of the same field overwrites
RECURSIVE StructuralParse(_, _, _)
StructuralParse(html, k, info) ==
    IF k > Len(html) THEN info
    ELSE IF html[k].span = "label" /\ ValuesAfter(html, k) # {}
         THEN StructuralParse(html, k + 1,
                  [info EXCEPT ![html[k].field] = html[Min(ValuesAfter(html, k))].text])
         ELSE StructuralParse(html, k + 1, info)

\* re.search(r'<Label>:.*?<span dir="ltr">\s*(\d+)\s*</span>', html): the
\* first number-valued span after the first occurrence of the label
RegexField(html, f) ==
    LET labels == {k \in 1..Len(html) : html[k] = LabelSpan(f)}
    IN  IF labels = {} THEN "N/A"
        ELSE LET numbers == {j \in ValuesAfter(html, Min(labels)) : IsNumber(html[j].text)}
             IN  IF numbers = {} THEN "N/A" ELSE html[Min(numbers)].text

parse_enrollment_regex(html) ==
    IF html = << >> THEN EnrollmentDefaults
    ELSE [f \in EnrollmentFields |-> RegexField(html, f)]

parse_enrollment_html(html) ==
    IF html = << >> THEN EnrollmentDefaults
    ELSE LET info == StructuralParse(html, 1, EnrollmentDefaults)
         IN  IF info["enrollment_actual"] = "N/A"
                THEN parse_enrollment_regex(html)
                ELSE info

(***************************************************************************)
(* What the two detail endpoints may answer with.  A JSON object of the    *)
(* enrollment endpoint carries an HTML fragment under the key html, or     *)
(* plain values only.                                                      *)
(***************************************************************************)
HtmlBody(h) == [kind |-> "text", text |-> h]

SampleMeetings ==
    [fmt |-> << [meetingTime |-> EmptyDict, faculty |-> << >>],
                [meetingTime |-> [tuesday |-> TRUE, thursday |-> TRUE,
                                  beginTime |-> "1300", endTime |-> "1415",
                                  campus |-> "OAK", building |-> "LIB", room |-> "12"],
                 faculty |-> << [displayName |-> "Ada"], [displayName |-> "Ada"] >>] >>]

SampleHtml ==
    << LabelSpan("enrollment_actual"), ValueSpan("25"),
       LabelSpan("enrollment_maximum"), ValueSpan("30") >>

MeetingResponses ==
    {NetError, Response(500, TextBody), Response(200, TextBody),
     Response(200, ObjectBody(EmptyDict)), Response(500, ObjectBody(SampleMeetings)),
     Response(200, ObjectBody(SampleMeetings))}

EnrollmentResponses ==
    {NetError, Response(500, HtmlBody(SampleHtml)), Response(200, HtmlBody(SampleHtml)),
     Response(200, NonObjectBody),
     Response(200, ObjectBody([html |-> SampleHtml])),
     Response(200, ObjectBody([enrollment_actual |-> "7"]))}

\* get_meeting_times: the decoded JSON, or {} on a RequestException
get_meeting_times(r) == IF FetchRaises(r) THEN EmptyDict ELSE r.body.dict

\* get_enrollment_info
get_enrollment_info(r) ==
    IF FailedRequest(r) THEN EmptyDict
    ELSE IF r.body.kind = "text" THEN parse_enrollment_html(r.body.text)
    ELSE IF ~r.body.obj THEN EmptyDict
    ELSE LET json_response == r.body.dict
             html_content  == Get(json_response, "html", << >>)
         IN  IF html_content # << >> THEN parse_enrollment_html(html_content)
             ELSE json_response

\* the CourseSection built for one raw course
CourseSection(course, meeting_data, enrollment_data) ==
    LET meeting_components == parse_meeting_times_for_csv(meeting_data)
    IN  [course_reference_number |-> Get(course, "courseReferenceNumber", ""),
         instructor      |-> extract_instructor(meeting_data),
         days            |-> meeting_components.days,
         time            |-> meeting_components.time,
         campus          |-> meeting_components.campus,
         classroom       |-> meeting_components.classroom,
         enrollment_info |-> enrollment_data]

VARIABLES
    pc,            \* position in scrape_course_schedule and its callees
    attempt,       \* number of the authorization attempt under way (1..3)
    auth_success,  \* scrape_course_schedule.auth_success
    authResult,    \* what the attempt returned: "none", "Authorized", "Failed"
    reqs,          \* the requests of the attempt under way, each with its response
    max_pages,     \* search_courses.max_pages, 0 for None
    page_offset,   \* search_courses.page_offset
    page_count,    \* search_courses.page_count
    all_courses,   \* search_courses.all_courses, then the caller's all_courses
    fetched,       \* the page fetches of the search: offset asked, response
    stop,          \* why the pagination loop was left
    i,             \* index in all_courses of the course being enriched
    meeting_data,  \* scrape_course_schedule.meeting_data
    meetingResp,   \* response to the last meeting-time fetch
    enrollResp,    \* response to the last enrollment fetch
    enriched_courses,  \* scrape_course_schedule.enriched_courses
    returned,      \* what scrape_course_schedule returned, once pc = "done"
    html_content,  \* parse_enrollment_html.html_content, a sequence of spans
    enrollment_info,   \* parse_enrollment_html.enrollment_info, once returned
    file,          \* the snapshot file <filename>, as it is on disk
    backup,        \* the backup file <base_name>_OLD<ext>, as it is on disk
    courses_to_save,   \* save_to_csv.courses
    compare_with_existing,  \* save_to_csv.compare_with_existing
    backed_up,     \* what backup_existing_file returned to save_to_csv
    comparison_result,  \* what the last comparison or save_to_csv returned
    written,       \* history: the snapshots the completed runs wrote, in order
    raw_course,    \* the raw course (a search row) given to the normalizer
    normalized     \* what the normalizer functions returned, by name

authVars == <<attempt, auth_success, authResult, reqs>>

searchVars == <<max_pages, page_offset, page_count, all_courses, fetched, stop>>

enrichVars == <<i, meeting_data, meetingResp, enrollResp, enriched_courses>>

scrapeVars == <<authVars, searchVars, enrichVars, returned>>

parseVars == <<html_content, enrollment_info>>

fileVars == <<file, backup>>

saveVars == <<courses_to_save, compare_with_existing, backed_up, comparison_result, written>>

\* the variables of the steps outside scrape_course_schedule
normVars == <<raw_course, normalized>>

outsideVars == <<parseVars, fileVars, saveVars, normVars>>

vars == <<pc, scrapeVars, outsideVars>>

\* no file on disk, and what save_to_csv returns without a comparison
NoFile == [exists |-> FALSE]

None == [returned |-> "None"]

\* nothing parsed
ParseIdle ==
    /\ html_content = << >>
    /\ enrollment_info = EmptyDict

\* nothing on disk, no save under way
SaveIdle ==
    /\ file = NoFile
    /\ backup = NoFile
    /\ courses_to_save = << >>
    /\ compare_with_existing = TRUE
    /\ backed_up = FALSE
    /\ comparison_result = None
    /\ written = << >>

\* nothing normalized
NormIdle ==
    /\ raw_course = EmptyDict
    /\ normalized = EmptyDict

OutsideIdle == ParseIdle /\ SaveIdle /\ NormIdle

Init ==
    /\ pc = "get_class_search"
    /\ attempt = 1
    /\ auth_success = FALSE
    /\ authResult = "none"
    /\ reqs = << >>
    /\ max_pages = 0
    /\ page_offset = 0
    /\ page_count = 0
    /\ all_courses = << >>
    /\ fetched = << >>
    /\ stop = "none"
    /\ i = 0
    /\ meeting_data = EmptyDict
    /\ meetingResp = NoResp
    /\ enrollResp = NoResp
    /\ enriched_courses = << >>
    /\ returned = "nothing"
    /\ OutsideIdle

(***************************************************************************)
(* authorize_session.  An attempt ends with authResult "Authorized"        *)
(* (return True) or "Failed" (return False) at pc = "auth_returned", or    *)
(* with an exception that no handler of the attempt catches, at            *)
(* pc = "raised": the exception leaves scrape_course_schedule too.         *)
(***************************************************************************)
EndAttempt(result) ==
    /\ authResult' = result
    /\ pc' = "auth_returned"

GoOn(position) ==
    /\ pc' = position
    /\ UNCHANGED authResult

Escapes ==
    /\ pc' = "raised"
    /\ UNCHANGED authResult

Sent(request, r) == reqs' = Append(reqs, [req |-> request, resp |-> r])

\* Step 1: GET the class-search page, raise_for_status
GetClassSearch ==
    /\ pc = "get_class_search"
    /\ \E r \in PageResponses :
        /\ Sent("GET classSearch", r)
        /\ IF FailedRequest(r) THEN EndAttempt("Failed") ELSE GoOn("get_term_selection")
    /\ UNCHANGED <<attempt, auth_success, searchVars, enrichVars, returned>>
    /\ UNCHANGED outsideVars

\* mutant: step 2 without raise_for_status and with the error swallowed
GetTermSelection_IgnoresError ==
    /\ pc = "get_term_selection"
    /\ \E r \in PageResponses :
        /\ Sent("GET termSelection", r)
        /\ GoOn("post_term")
    /\ UNCHANGED <<attempt, auth_success, searchVars, enrichVars, returned>>
    /\ UNCHANGED outsideVars

\* Step 2: GET the term-selection page, raise_for_status
GetTermSelection ==
    /\ pc = "get_term_selection"
    /\ \E r \in PageResponses :
        /\ Sent("GET termSelection", r)
        /\ IF FailedRequest(r) THEN EndAttempt("Failed") ELSE GoOn("post_term")
    /\ UNCHANGED <<attempt, auth_success, searchVars, enrichVars, returned>>
    /\ UNCHANGED outsideVars

\* the handler "except ValueError" of the attempt: it reads the status of
\* the response the variable response is bound to when json() raises
NotJsonOutcome(r) == IF r.status = 200 THEN "Authorized" ELSE "Failed"

\* mutant: the inspection without the regAllowed branch
InspectFirstPost_NoRegAllowed(r) ==
    IF FailedRequest(r) THEN EndAttempt("Failed")
    ELSE IF r.body.kind = "text" THEN EndAttempt(NotJsonOutcome(r))
    ELSE IF ~r.body.obj THEN Escapes
    ELSE LET result == r.body.dict IN
         IF Get(result, "success", FALSE) THEN EndAttempt("Authorized")
         ELSE IF "fwdURL" \in DOMAIN result
              THEN IF FollowsForward(result["fwdURL"])
                      THEN GoOn("get_forward") ELSE GoOn("get_direct")
         ELSE EndAttempt("Failed")

\* Step 3: POST the term, raise_for_status, and the inspection of the
\* result up to the next request
InspectFirstPost(r) ==
    IF FailedRequest(r) THEN EndAttempt("Failed")
    ELSE IF r.body.kind = "text" THEN EndAttempt(NotJsonOutcome(r))
    ELSE IF ~r.body.obj THEN Escapes
    ELSE LET result == r.body.dict IN
         IF Get(result, "success", FALSE) THEN EndAttempt("Authorized")
         ELSE IF "regAllowed" \in DOMAIN result THEN EndAttempt("Authorized")
         ELSE IF "fwdURL" \in DOMAIN result
              THEN IF FollowsForward(result["fwdURL"])
                      THEN GoOn("get_forward") ELSE GoOn("get_direct")
         ELSE EndAttempt("Failed")

PostTerm ==
    /\ pc = "post_term"
    /\ \E r \in TermResponses :
        /\ Sent("POST term", r)
        /\ InspectFirstPost(r)
    /\ UNCHANGED <<attempt, auth_success, searchVars, enrichVars, returned>>
    /\ UNCHANGED outsideVars

\* the response to the first term POST of the attempt under way
FirstPost == reqs[3].resp

\* GET the forward URL, raise_for_status
GetForward ==
    /\ pc = "get_forward"
    /\ \E r \in PageResponses :
        /\ Sent("GET " \o ForwardTarget(FirstPost.body.dict["fwdURL"]), r)
        /\ IF FailedRequest(r) THEN EndAttempt("Failed") ELSE GoOn("resubmit_term")
    /\ UNCHANGED <<attempt, auth_success, searchVars, enrichVars, returned>>
    /\ UNCHANGED outsideVars

\* the term POST again, without raise_for_status, and its inspection
InspectSecondPost(r) ==
    IF r.net = "error" THEN EndAttempt("Failed")
    ELSE IF r.body.kind = "text" THEN EndAttempt(NotJsonOutcome(r))
    ELSE IF ~r.body.obj THEN Escapes
    ELSE IF SignalsSuccess(r.body.dict) THEN EndAttempt("Authorized")
    ELSE EndAttempt("Failed")

ResubmitTerm ==
    /\ pc = "resubmit_term"
    /\ \E r \in TermResponses :
        /\ Sent("POST term", r)
        /\ InspectSecondPost(r)
    /\ UNCHANGED <<attempt, auth_success, searchVars, enrichVars, returned>>
    /\ UNCHANGED outsideVars

\* mutant: the direct GET judged as by raise_for_status, not by status 200
InspectDirectGet_AnyOk(r) ==
    IF FailedRequest(r) THEN EndAttempt("Failed") ELSE EndAttempt("Authorized")

\* null forward URL: GET the class-search page, no raise_for_status
InspectDirectGet(r) ==
    IF r.net = "error" THEN EndAttempt("Failed")
    ELSE IF r.status = 200 THEN EndAttempt("Authorized")
    ELSE EndAttempt("Failed")

GetDirect ==
    /\ pc = "get_direct"
    /\ \E r \in PageResponses :
        /\ Sent("GET classSearch", r)
        /\ InspectDirectGet(r)
    /\ UNCHANGED <<attempt, auth_success, searchVars, enrichVars, returned>>
    /\ UNCHANGED outsideVars

(***************************************************************************)
(* scrape_course_schedule: the retry loop around authorize_session, "if    *)
(* not auth_success: return []" and the call of search_courses with the    *)
(* caller's max_pages.  The locals of the attempt that returned are gone   *)
(* when the loop goes on.                                                  *)
(***************************************************************************)
\* mutant: the loop without "if not auth_success: return []"
AuthLoop_SearchesAnyway ==
    /\ pc = "auth_returned"
    /\ authResult' = "none"
    /\ reqs' = << >>
    /\ IF authResult = "Authorized"
          THEN /\ auth_success' = TRUE
               /\ pc' = "search"
               /\ max_pages' \in 0..MaxPagesArg
               /\ UNCHANGED <<attempt, returned>>
          ELSE IF attempt < MaxAttempts
          THEN /\ attempt' = attempt + 1
               /\ pc' = "get_class_search"
               /\ UNCHANGED <<auth_success, max_pages, returned>>
          ELSE /\ pc' = "search"
               /\ max_pages' \in 0..MaxPagesArg
               /\ UNCHANGED <<attempt, auth_success, returned>>
    /\ UNCHANGED <<page_offset, page_count, all_courses, fetched, stop, enrichVars>>
    /\ UNCHANGED outsideVars

AuthLoop ==
    /\ pc = "auth_returned"
    /\ authResult' = "none"
    /\ reqs' = << >>
    /\ IF authResult = "Authorized"
          THEN /\ auth_success' = TRUE
               /\ pc' = "search"
               /\ max_pages' \in 0..MaxPagesArg
               /\ UNCHANGED <<attempt, returned>>
          ELSE IF attempt < MaxAttempts
          THEN /\ attempt' = attempt + 1
               /\ pc' = "get_class_search"
               /\ UNCHANGED <<auth_success, max_pages, returned>>
          ELSE /\ pc' = "done"
               /\ returned' = << >>
               /\ UNCHANGED <<attempt, auth_success, max_pages>>
    /\ UNCHANGED <<page_offset, page_count, all_courses, fetched, stop, enrichVars>>
    /\ UNCHANGED outsideVars

(***************************************************************************)
(* search_courses: one iteration of "while True" per step.  A body that    *)
(* is not JSON is caught with the transport errors (FetchRaises); a JSON   *)
(* value that is not an object has no .get and the AttributeError is       *)
(* caught by nothing.                                                      *)
(***************************************************************************)
LeaveLoop(reason) ==
    /\ stop' = reason
    /\ pc' = "search_returned"

\* mutant: a failed page throws the accumulated rows away
PageFailed_DropsRows ==
    /\ LeaveLoop("failed")
    /\ all_courses' = << >>
    /\ UNCHANGED page_offset

\* "Search failed" and "Error searching courses": break
PageFailed ==
    /\ LeaveLoop("failed")
    /\ UNCHANGED <<all_courses, page_offset>>

\* mutant: one page too many before the ceiling stops the loop
CeilingReached_OffByOne == max_pages # 0 /\ page_count' > max_pages

\* "if max_pages and page_count >= max_pages", page_count already incremented
CeilingReached == max_pages # 0 /\ page_count' >= max_pages

\* mutant: a full page taken for the last page
LastPage_OrFull(courses) == Len(courses) <= PageMaxSize

\* "if len(courses) < page_max_size"
LastPage(courses) == Len(courses) < PageMaxSize

HandlePage(r) ==
    IF FetchRaises(r)
       THEN PageFailed
    ELSE IF ~r.body.obj
       THEN pc' = "raised" /\ UNCHANGED <<all_courses, page_offset, stop>>
    ELSE LET result  == r.body.dict
             courses == Get(result, "data", << >>)
         IN  IF ~Get(result, "success", FALSE)
                THEN PageFailed
             ELSE IF courses = << >>
                THEN LeaveLoop("empty") /\ UNCHANGED <<all_courses, page_offset>>
             ELSE /\ all_courses' = all_courses \o courses
                  /\ IF CeilingReached
                        THEN LeaveLoop("ceiling") /\ UNCHANGED page_offset
                     ELSE IF LastPage(courses)
                        THEN LeaveLoop("short") /\ UNCHANGED page_offset
                     ELSE /\ page_offset' = page_offset + PageMaxSize
                          /\ UNCHANGED <<pc, stop>>

\* one pass of the loop, the service holding at most cap rows
FetchPage(cap) ==
    /\ pc = "search"
    /\ page_count < MaxFetches
    /\ page_count' = page_count + 1
    /\ \E r \in SearchResponses(Len(all_courses), cap) :
        /\ fetched' = Append(fetched, [pageOffset |-> page_offset, response |-> r])
        /\ HandlePage(r)
    /\ UNCHANGED <<authVars, max_pages, enrichVars, returned>>
    /\ UNCHANGED outsideVars

SearchPage == FetchPage(MaxCourses)

\* mutant: the enrichment of the first course starts with the enrollment fetch
SearchReturn_StartsAtEnrollment ==
    /\ pc = "search_returned"
    /\ max_pages' = 0
    /\ page_offset' = 0
    /\ page_count' = 0
    /\ fetched' = << >>
    /\ stop' = "none"
    /\ IF all_courses = << >>
          THEN pc' = "done" /\ returned' = << >> /\ UNCHANGED i
          ELSE pc' = "enrollment" /\ i' = 1 /\ UNCHANGED returned
    /\ UNCHANGED <<authVars, all_courses>>
    /\ UNCHANGED <<meeting_data, meetingResp, enrollResp, enriched_courses>>
    /\ UNCHANGED outsideVars

\* search_courses returns all_courses; its other locals are gone
SearchReturn ==
    /\ pc = "search_returned"
    /\ max_pages' = 0
    /\ page_offset' = 0
    /\ page_count' = 0
    /\ fetched' = << >>
    /\ stop' = "none"
    /\ IF all_courses = << >>
          THEN pc' = "done" /\ returned' = << >> /\ UNCHANGED i
          ELSE pc' = "meeting" /\ i' = 1 /\ UNCHANGED returned
    /\ UNCHANGED <<authVars, all_courses>>
    /\ UNCHANGED <<meeting_data, meetingResp, enrollResp, enriched_courses>>
    /\ UNCHANGED outsideVars

(***************************************************************************)
(* scrape_course_schedule: the enrichment loop, two requests per course.   *)
(***************************************************************************)
GetMeetingTimes ==
    /\ pc = "meeting"
    /\ \E r \in MeetingResponses :
        /\ meetingResp' = r
        /\ meeting_data' = get_meeting_times(r)
    /\ pc' = "enrollment"
    /\ UNCHANGED <<authVars, searchVars, i, enrollResp, enriched_courses, returned>>
    /\ UNCHANGED outsideVars

\* mutant: a course whose enrollment fetch failed is skipped
GetEnrollmentInfo_SkipsFailed ==
    /\ pc = "enrollment"
    /\ \E r \in EnrollmentResponses :
        /\ enrollResp' = r
        /\ enriched_courses' =
               IF FailedRequest(r) THEN enriched_courses
               ELSE Append(enriched_courses,
                           CourseSection(all_courses[i], meeting_data, get_enrollment_info(r)))
    /\ IF i = Len(all_courses)
          THEN pc' = "done" /\ returned' = enriched_courses' /\ UNCHANGED i
          ELSE pc' = "meeting" /\ i' = i + 1 /\ UNCHANGED returned
    /\ UNCHANGED <<authVars, searchVars, meeting_data, meetingResp>>
    /\ UNCHANGED outsideVars

GetEnrollmentInfo ==
    /\ pc = "enrollment"
    /\ \E r \in EnrollmentResponses :
        /\ enrollResp' = r
        /\ enriched_courses' =
               Append(enriched_courses,
                      CourseSection(all_courses[i], meeting_data, get_enrollment_info(r)))
    /\ IF i = Len(all_courses)
          THEN pc' = "done" /\ returned' = enriched_courses' /\ UNCHANGED i
          ELSE pc' = "meeting" /\ i' = i + 1 /\ UNCHANGED returned
    /\ UNCHANGED <<authVars, searchVars, meeting_data, meetingResp>>
    /\ UNCHANGED outsideVars

Next ==
    \/ GetClassSearch
    \/ GetTermSelection
    \/ PostTerm
    \/ GetForward
    \/ ResubmitTerm
    \/ GetDirect
    \/ AuthLoop
    \/ SearchPage
    \/ SearchReturn
    \/ GetMeetingTimes
    \/ GetEnrollmentInfo

Spec == Init /\ [][Next]_vars

(***************************************************************************)
(* search_courses called on an authorized session, alone, with a service   *)
(* that holds more rows.                                                   *)
(***************************************************************************)
InitSearch ==
    /\ pc = "search"
    /\ attempt = 1
    /\ auth_success = TRUE
    /\ authResult = "none"
    /\ reqs = << >>
    /\ max_pages \in 0..MaxPagesArg
    /\ page_offset = 0
    /\ page_count = 0
    /\ all_courses = << >>
    /\ fetched = << >>
    /\ stop = "none"
    /\ i = 0
    /\ meeting_data = EmptyDict
    /\ meetingResp = NoResp
    /\ enrollResp = NoResp
    /\ enriched_courses = << >>
    /\ returned = "nothing"
    /\ OutsideIdle

SearchPageDeep == FetchPage(MaxRows)

NextSearch == SearchPageDeep

SearchSpec == InitSearch /\ [][NextSearch]_vars

(***************************************************************************)
(* parse_enrollment_html called alone, on every fragment of at most        *)
(* MaxSpans spans: labels of three of the six fields, and values that are  *)
(* numbers or not ("-2" does not match \d+).                               *)
(***************************************************************************)
\* no scrape under way
ScrapeIdle ==
    /\ attempt = 1
    /\ auth_success = FALSE
    /\ authResult = "none"
    /\ reqs = << >>
    /\ max_pages = 0
    /\ page_offset = 0
    /\ page_count = 0
    /\ all_courses = << >>
    /\ fetched = << >>
    /\ stop = "none"
    /\ i = 0
    /\ meeting_data = EmptyDict
    /\ meetingResp = NoResp
    /\ enrollResp = NoResp
    /\ enriched_courses = << >>
    /\ returned = "nothing"

SpanAlphabet ==
    {LabelSpan("enrollment_actual"), LabelSpan("enrollment_maximum"),
     LabelSpan("enrollment_seats_available"),
     ValueSpan("25"), ValueSpan("30"), ValueSpan("-2")}

HtmlFragments == SeqsUpTo(SpanAlphabet, MaxSpans)

InitParse ==
    /\ pc = "parse"
    /\ ScrapeIdle
    /\ NormIdle
    /\ html_content \in HtmlFragments
    /\ enrollment_info = EmptyDict
    /\ SaveIdle

ParseEnrollmentHtml ==
    /\ pc = "parse"
    /\ enrollment_info' = parse_enrollment_html(html_content)
    /\ pc' = "parsed"
    /\ UNCHANGED <<html_content, scrapeVars, fileVars, saveVars, normVars>>

NextParse == ParseEnrollmentHtml

ParseSpec == InitParse /\ [][NextParse]_vars

(***************************************************************************)
(* Snapshot files.  A file on disk is its header (the set of its columns)  *)
(* and its rows, each row a function from the columns to the text of the   *)
(* cell.  Of the sixteen columns _write_csv_file writes, the model keeps   *)
(* the key and the six columns the differ compares.                        *)
(***************************************************************************)
TimeLocationFields == {"Days", "Time", "Campus", "Classroom"}

EnrollmentColumns == {"Enrollment Actual", "Enrollment Maximum"}

Fieldnames == {"CRN"} \cup TimeLocationFields \cup EnrollmentColumns

CsvFile(rows) == [exists |-> TRUE, header |-> Fieldnames, rows |-> rows]

(***************************************************************************)
(* pd.read_csv with its defaults.  A cell whose text is one of the default *)
(* NA strings is read as NaN.  A column whose other cells are all runs of  *)
(* digits is numeric: int64 if it has no NaN, float64 if it has one; any   *)
(* other column keeps the text of its cells.  The model holds each value   *)
(* read by the text str() gives for it, which is all the differ uses.      *)
(***************************************************************************)
NaValues ==
    {"", "#N/A", "#N/A N/A", "#NA", "-1.#IND", "-1.#QNAN", "-NaN", "-nan",
     "1.#IND", "1.#QNAN", "<NA>", "N/A", "NA", "NULL", "NaN", "None", "n/a",
     "nan", "null"}

Max(S) == CHOOSE x \in S : \A y \in S : x >= y

\* the digits of the integer a run of digits is parsed to
RECURSIVE Canonical(_)
Canonical(text) ==
    IF Len(text) > 1 /\ SubSeq(text, 1, 1) = "0"
       THEN Canonical(SubSeq(text, 2, Len(text)))
       ELSE text

ColumnCells(f, column) == {f.rows[k][column] : k \in 1..Len(f.rows)}

Dtype(f, column) ==
    IF \E text \in ColumnCells(f, column) \ NaValues : ~IsNumber(text) THEN "object"
    ELSE IF ColumnCells(f, column) \cap NaValues # {} THEN "float64"
    ELSE "int64"

\* str(value) of the value read from row k, column
StrOfCell(f, k, column) ==
    LET text == f.rows[k][column]
    IN  IF text \in NaValues THEN "nan"
        ELSE IF Dtype(f, column) = "object" THEN text
        ELSE IF Dtype(f, column) = "int64" THEN Canonical(text)
        ELSE Canonical(text) \o ".0"

\* the DataFrame, as the sequence of its rows
read_csv(f) ==
    [k \in 1..Len(f.rows) |-> [column \in f.header |-> StrOfCell(f, k, column)]]

\* what makes the reading of a file, or row['CRN'], raise: no such file, a
\* file of zero bytes, rows without a CRN column
ReadRaises(f) ==
    \/ ~f.exists
    \/ f.header = {}
    \/ (f.rows # << >> /\ "CRN" \notin f.header)

\* mutant: of the rows with one key the first stays
CoursesByCRN_FirstRow(df) ==
    [crn \in {df[k]["CRN"] : k \in 1..Len(df)}
        |-> df[Min({k \in 1..Len(df) : df[k]["CRN"] = crn})]]

\* {row['CRN']: row.to_dict() for _, row in df.iterrows()}: of the rows with
\* one key the last stays.  The CRN cells of the files modelled are runs of
\* digits, read as integers.
CoursesByCRN(df) ==
    [crn \in {df[k]["CRN"] : k \in 1..Len(df)}
        |-> df[Max({k \in 1..Len(df) : df[k]["CRN"] = crn})]]

(***************************************************************************)
(* FileManager.compare_course_files.  The four lists of the result are     *)
(* built in the iteration order of Python sets, which the code does not    *)
(* fix: the model holds each list as the set of its entries.               *)
(***************************************************************************)
\* text.strip(), for the blanks of the files modelled
RECURSIVE Strip(_)
Strip(text) ==
    IF text = "" THEN text
    ELSE IF SubSeq(text, 1, 1) = " " THEN Strip(SubSeq(text, 2, Len(text)))
    ELSE IF SubSeq(text, Len(text), Len(text)) = " "
         THEN Strip(SubSeq(text, 1, Len(text) - 1))
    ELSE text

\* str(course.get(field, 'N/A')).strip()
FieldValue(course, field) == Strip(Get(course, field, "N/A"))

\* "if old_val != new_val"
TimeLocationDiffers(old_val, new_val) == old_val # new_val

\* "if old_val != new_val and old_val != 'N/A' and new_val != 'N/A'"
EnrollmentDiffers(old_val, new_val) ==
    old_val # new_val /\ old_val # "N/A" /\ new_val # "N/A"

\* mutant: the new value reported on both sides
ChangeOf_NewTwice(old_course, new_course, field) ==
    [old |-> FieldValue(new_course, field), new |-> FieldValue(new_course, field)]

\* changes[field] = {'old': old_val, 'new': new_val}
ChangeOf(old_course, new_course, field) ==
    [old |-> FieldValue(old_course, field), new |-> FieldValue(new_course, field)]

\* mutant: once one field differs, all four fields are reported
TimeLocationChanges_AllFields(old_course, new_course) ==
    [field \in {g \in TimeLocationFields :
                    \E h \in TimeLocationFields :
                        TimeLocationDiffers(FieldValue(old_course, h), FieldValue(new_course, h))}
        |-> ChangeOf(old_course, new_course, field)]

\* the changes dict of the time/location fields of one common course
TimeLocationChanges(old_course, new_course) ==
    [field \in {g \in TimeLocationFields :
                    TimeLocationDiffers(FieldValue(old_course, g), FieldValue(new_course, g))}
        |-> ChangeOf(old_course, new_course, field)]

\* the enroll_changes dict of one common course
EnrollmentChanges(old_course, new_course) ==
    [field \in {g \in EnrollmentColumns :
                    EnrollmentDiffers(FieldValue(old_course, g), FieldValue(new_course, g))}
        |-> ChangeOf(old_course, new_course, field)]

\* CourseComparison([], [], [], [])
EmptyComparison ==
    [added_courses |-> {}, removed_courses |-> {},
     time_location_changes |-> {}, enrollment_changes |-> {}]

\* added_crns = new_crns - old_crns
AddedCrns(old_crns, new_crns) == new_crns \ old_crns

\* mutant: every CRN of the old file counts as removed
RemovedCrns_AllOld(old_crns, new_crns) == old_crns

\* removed_crns = old_crns - new_crns
RemovedCrns(old_crns, new_crns) == old_crns \ new_crns

\* common_crns = old_crns & new_crns
CommonCrns(old_crns, new_crns) == old_crns \cap new_crns

\* mutant: when the reading fails, what was read so far is reported
compare_course_files_Partial(old_file, new_file) ==
    IF ~old_file.exists THEN EmptyComparison
    ELSE [EmptyComparison EXCEPT !.removed_courses = {old_file}]

compare_course_files(old_file, new_file) ==
    IF ~old_file.exists THEN EmptyComparison
    ELSE IF ReadRaises(old_file) \/ ReadRaises(new_file) THEN EmptyComparison
    ELSE LET old_courses  == CoursesByCRN(read_csv(old_file))
             new_courses  == CoursesByCRN(read_csv(new_file))
             old_crns     == DOMAIN old_courses
             new_crns     == DOMAIN new_courses
             added_crns   == AddedCrns(old_crns, new_crns)
             removed_crns == RemovedCrns(old_crns, new_crns)
             common_crns  == CommonCrns(old_crns, new_crns)
         IN  [added_courses   |-> {new_courses[crn] : crn \in added_crns},
              removed_courses |-> {old_courses[crn] : crn \in removed_crns},
              time_location_changes |->
                  {[CRN |-> crn,
                    changes |-> TimeLocationChanges(old_courses[crn], new_courses[crn])] :
                      crn \in {c \in common_crns :
                                  TimeLocationChanges(old_courses[c], new_courses[c]) # << >>}},
              enrollment_changes |->
                  {[CRN |-> crn,
                    changes |-> EnrollmentChanges(old_courses[crn], new_courses[crn])] :
                      crn \in {c \in common_crns :
                                  EnrollmentChanges(old_courses[c], new_courses[c]) # << >>}}]

(***************************************************************************)
(* compare_course_files called alone, on every pair of files of at most    *)
(* MaxFileRows rows drawn from SnapshotRows, the old one possibly missing. *)
(***************************************************************************)
Row(crn, days, time, campus, classroom, actual, maximum) ==
    [column \in Fieldnames |->
        CASE column = "CRN"       -> crn
          [] column = "Days"      -> days
          [] column = "Time"      -> time
          [] column = "Campus"    -> campus
          [] column = "Classroom" -> classroom
          [] column = "Enrollment Actual"  -> actual
          [] column = "Enrollment Maximum" -> maximum]

SnapshotRows ==
    {Row("100", "MW", "1000 - 1100", "OAK", "LIB 12", "25", "30"),
     Row("100", "TR", "1000 - 1100", "OAK", "LIB 12 ", "25", "N/A"),
     Row("100", "MW", "0900", "SF", "LIB 12", "27", "30"),
     Row("200", "TBA", "TBA", "TBA", "TBA", "N/A", "40"),
     Row("200", "TBA", "0900", "TBA", "", "12", "40")}

SnapshotFiles == {CsvFile(rows) : rows \in SeqsUpTo(SnapshotRows, MaxFileRows)}

InitDiff ==
    /\ pc = "compare"
    /\ ScrapeIdle
    /\ ParseIdle
    /\ NormIdle
    /\ backup \in SnapshotFiles \cup {NoFile}
    /\ file \in SnapshotFiles
    /\ courses_to_save = << >>
    /\ compare_with_existing = TRUE
    /\ backed_up = FALSE
    /\ comparison_result = None
    /\ written = << >>

\* compare_course_files(backup_filename, filename)
CompareCourseFiles ==
    /\ pc = "compare"
    /\ comparison_result' = compare_course_files(backup, file)
    /\ pc' = "compared"
    /\ UNCHANGED <<scrapeVars, parseVars, normVars, fileVars>>
    /\ UNCHANGED <<courses_to_save, compare_with_existing, backed_up, written>>

NextDiff == CompareCourseFiles

DiffSpec == InitDiff /\ [][NextDiff]_vars

(***************************************************************************)
(* save_to_csv, run after run on one filename.  Every operation on the     *)
(* file system is one step: os.remove of the old backup, shutil.move of    *)
(* the file to the backup name, open(filename, 'w'), which truncates, the  *)
(* writing of the rows, the comparison.  No other process touches the two  *)
(* files.                                                                  *)
(***************************************************************************)
\* the row writer.writerow writes for a course
CsvRow(course) ==
    Row(course.course_reference_number, course.days, course.time, course.campus,
        course.classroom,
        Get(course.enrollment_info, "enrollment_actual", "N/A"),
        Get(course.enrollment_info, "enrollment_maximum", "N/A"))

\* the file _write_csv_file leaves
WriteCsv(courseList) == CsvFile([k \in 1..Len(courseList) |-> CsvRow(courseList[k])])

\* the file open(filename, 'w') leaves: no byte, no header
TruncatedFile == [exists |-> TRUE, header |-> {}, rows |-> << >>]

SampleSections ==
    << CourseSection([courseReferenceNumber |-> "100"], SampleMeetings,
                     parse_enrollment_html(SampleHtml)),
       CourseSection([courseReferenceNumber |-> "100"], EmptyDict, EmptyDict),
       CourseSection([courseReferenceNumber |-> "200"], SampleMeetings,
                     [enrollment_actual |-> "7"]) >>

\* the lists of courses a run may be given to save
SavedCourseLists ==
    {<<SampleSections[1]>>, <<SampleSections[2]>>, <<SampleSections[3]>>,
     <<SampleSections[1], SampleSections[3]>>}

InitSave ==
    /\ pc = "idle"
    /\ ScrapeIdle
    /\ ParseIdle
    /\ NormIdle
    /\ SaveIdle

\* save_to_csv entered: "if compare_with_existing and backup_existing_file(filename)"
\* up to the first operation on the file system
SaveToCsv ==
    /\ pc = "idle"
    /\ Len(written) < MaxRuns
    /\ courses_to_save' \in SavedCourseLists
    /\ compare_with_existing' \in BOOLEAN
    /\ backed_up' = FALSE
    /\ pc' = IF compare_with_existing' /\ file.exists
                THEN IF backup.exists THEN "remove_backup" ELSE "move_file"
                ELSE "open_file"
    /\ UNCHANGED <<scrapeVars, parseVars, normVars, fileVars, comparison_result, written>>

\* mutant: the snapshot file is removed, not the old backup
RemoveBackup_RemovesFile ==
    /\ pc = "remove_backup"
    /\ file' = NoFile
    /\ pc' = "move_file"
    /\ UNCHANGED <<scrapeVars, parseVars, normVars, backup, saveVars>>

\* os.remove(backup_name)
RemoveBackup ==
    /\ pc = "remove_backup"
    /\ backup' = NoFile
    /\ pc' = "move_file"
    /\ UNCHANGED <<scrapeVars, parseVars, normVars, file, saveVars>>

\* mutant: the file is copied to the backup name, not moved
MoveFile_Copies ==
    /\ pc = "move_file"
    /\ backup' = file
    /\ backed_up' = TRUE
    /\ pc' = "open_file"
    /\ UNCHANGED <<scrapeVars, parseVars, normVars, file>>
    /\ UNCHANGED <<courses_to_save, compare_with_existing, comparison_result, written>>

\* shutil.move(filename, backup_name); return True
MoveFile ==
    /\ pc = "move_file"
    /\ backup' = file
    /\ file' = NoFile
    /\ backed_up' = TRUE
    /\ pc' = "open_file"
    /\ UNCHANGED <<scrapeVars, parseVars, normVars>>
    /\ UNCHANGED <<courses_to_save, compare_with_existing, comparison_result, written>>

\* _write_csv_file: open(filename, 'w')
OpenFile ==
    /\ pc = "open_file"
    /\ file' = TruncatedFile
    /\ pc' = "write_rows"
    /\ UNCHANGED <<scrapeVars, parseVars, normVars, backup, saveVars>>

\* save_to_csv returns
Return(result) ==
    /\ comparison_result' = result
    /\ written' = Append(written, WriteCsv(courses_to_save))
    /\ pc' = "idle"

\* _write_csv_file: the header and the rows, the file closed; without a
\* backup save_to_csv returns None here
WriteRows ==
    /\ pc = "write_rows"
    /\ file' = WriteCsv(courses_to_save)
    /\ IF backed_up
          THEN pc' = "compare_files" /\ UNCHANGED <<comparison_result, written>>
          ELSE Return(None)
    /\ UNCHANGED <<scrapeVars, parseVars, normVars, backup>>
    /\ UNCHANGED <<courses_to_save, compare_with_existing, backed_up>>

\* mutant: the new file is given as the old one
CompareFiles_Swapped ==
    /\ pc = "compare_files"
    /\ Return(compare_course_files(file, backup))
    /\ UNCHANGED <<scrapeVars, parseVars, normVars, fileVars>>
    /\ UNCHANGED <<courses_to_save, compare_with_existing, backed_up>>

\* compare_course_files(backup_filename, filename), the report, the return
CompareFiles ==
    /\ pc = "compare_files"
    /\ Return(compare_course_files(backup, file))
    /\ UNCHANGED <<scrapeVars, parseVars, normVars, fileVars>>
    /\ UNCHANGED <<courses_to_save, compare_with_existing, backed_up>>

NextSave ==
    \/ SaveToCsv
    \/ RemoveBackup
    \/ MoveFile
    \/ OpenFile
    \/ WriteRows
    \/ CompareFiles

SaveSpec == InitSave /\ [][NextSave]_vars

(***************************************************************************)
(* The same runs, with a process that may die between two steps of a run:  *)
(* pc records where, and nothing runs after it.                            *)
(***************************************************************************)
SavePositions == {"remove_backup", "move_file", "open_file", "write_rows", "compare_files"}

Crash ==
    /\ pc \in SavePositions
    /\ pc' = "crashed at " \o pc
    /\ UNCHANGED <<scrapeVars, outsideVars>>

NextCrash ==
    \/ NextSave
    \/ Crash

CrashSpec == InitSave /\ [][NextCrash]_vars

(***************************************************************************)
(* compare_course_files called alone on files of which one at least cannot *)
(* be read or keyed: a file of zero bytes (pandas raises EmptyDataError),  *)
(* rows under a header without the CRN column (row['CRN'] raises           *)
(* KeyError), a new file that is missing (FileNotFoundError).              *)
(***************************************************************************)
\* the file without its CRN column
WithoutCRN(f) ==
    [exists |-> TRUE,
     header |-> f.header \ {"CRN"},
     rows   |-> [k \in 1..Len(f.rows) |->
                    [column \in f.header \ {"CRN"} |-> f.rows[k][column]]]]

UnreadableFiles ==
    {TruncatedFile}
        \cup {WithoutCRN(CsvFile(<<row>>)) : row \in SnapshotRows}

\* an old file that exists and a new file, one of them at least unreadable
InitUnreadable ==
    /\ pc = "compare"
    /\ ScrapeIdle
    /\ ParseIdle
    /\ NormIdle
    /\ \E pair \in {q \in (SnapshotFiles \cup UnreadableFiles)
                            \X (SnapshotFiles \cup UnreadableFiles \cup {NoFile}) :
                       ReadRaises(q[1]) \/ ReadRaises(q[2])} :
           backup = pair[1] /\ file = pair[2]
    /\ courses_to_save = << >>
    /\ compare_with_existing = TRUE
    /\ backed_up = FALSE
    /\ comparison_result = None
    /\ written = << >>

UnreadableSpec == InitUnreadable /\ [][NextDiff]_vars

(***************************************************************************)
(* The record normalizer on its own: the functions scrape_course_schedule  *)
(* applies to one raw course and its meeting data, in the order of the     *)
(* loop body.  A JSON value whose type matters (the credit hours, which    *)
(* the service sends as numbers or null) carries its type.                 *)
(***************************************************************************)
JsonNull == [json |-> "null"]

JsonNumber(n) == [json |-> "number", value |-> n]

JsonString(s) == [json |-> "string", value |-> s]

\* bool(v): None, 0 and '' are false
Truthy(v) ==
    CASE v.json = "null"   -> FALSE
      [] v.json = "number" -> v.value # 0
      [] v.json = "string" -> v.value # ""

DigitText == <<"0", "1", "2", "3", "4", "5", "6", "7", "8", "9">>

RECURSIVE Decimal(_)
Decimal(n) ==
    IF n < 10 THEN DigitText[n + 1]
    ELSE Decimal(n \div 10) \o DigitText[(n % 10) + 1]

\* str(v), as an f-string formats it
StrOf(v) ==
    CASE v.json = "null"   -> "None"
      [] v.json = "number" -> Decimal(v.value)
      [] v.json = "string" -> v.value

CreditsFormatted(credit_low, credit_high) ==
    IF Truthy(credit_low) /\ Truthy(credit_high)
       THEN IF credit_low = credit_high
               THEN credit_low
               ELSE JsonString(StrOf(credit_low) \o "-" \o StrOf(credit_high))
    ELSE IF Truthy(credit_low) THEN credit_low
    ELSE IF Truthy(credit_high) THEN credit_high
    ELSE JsonString("TBA")

format_credit_hours(course) ==
    LET credit_low  == Get(course, "creditHourLow", JsonString(""))
        credit_high == Get(course, "creditHourHigh", JsonString(""))
    IN  [credit_low  |-> credit_low,
         credit_high |-> credit_high,
         formatted   |-> CreditsFormatted(credit_low, credit_high)]

\* the per-meeting lists parse_meeting_times_for_csv(meeting_data) collects
\* before joining
AllOf(ValueOfMeeting(_)) ==
    IF NoMeetings(meeting_data) THEN << >>
    ELSE [k \in 1..Len(meeting_data["fmt"]) |-> ValueOfMeeting(meeting_data["fmt"][k])]

DayNames == {DayMapping[k][1] : k \in 1..Len(DayMapping)}

\* a meetingTime as the service sends it: all seven flags, each true or false
DayFlags(S) == [d \in DayNames |-> d \in S]

FlaggedMeetingTimes ==
    {DayFlags(S) : S \in SUBSET DayNames}
        \cup {DayFlags(S) @@ [meetingTimeType |-> "CLAS"] : S \in SUBSET DayNames}

MeetingSamples ==
    { [meetingTime |-> EmptyDict, faculty |-> << >>],
      [meetingTime |-> [tuesday |-> TRUE, thursday |-> TRUE,
                        beginTime |-> "1300", endTime |-> "1415",
                        campus |-> "OAK", building |-> "LIB", room |-> "12"],
       faculty |-> <<[displayName |-> "Ada"], [displayName |-> "Ada"]>>],
      [meetingTime |-> DayFlags({}) @@ [meetingTimeType |-> "CLAS", beginTime |-> "",
                                        campus |-> "", building |-> "", room |-> ""]],
      [meetingTime |-> [monday |-> TRUE, beginTime |-> "0900", campus |-> "TBA",
                        building |-> "SCI", buildingDescription |-> "Science Hall"],
       faculty |-> <<[displayName |-> "Bo"], [displayName |-> "Ada"]>>],
      [meetingTime |-> [friday |-> TRUE, wednesday |-> TRUE, room |-> "7"],
       faculty |-> <<[displayName |-> "ada"]>>],
      [faculty |-> <<[displayName |-> "Bo"]>>] }

MeetingDatas ==
    {EmptyDict}
        \cup {[fmt |-> <<[meetingTime |-> t]>>] : t \in FlaggedMeetingTimes}
        \cup {[fmt |-> meetings] : meetings \in SeqsUpTo(MeetingSamples, MaxMeetings)}

CreditValues == {JsonNull, JsonNumber(0), JsonNumber(3), JsonNumber(4), JsonString("")}

CreditCourses ==
    {EmptyDict}
        \cup {[creditHourLow |-> low] : low \in CreditValues}
        \cup {[creditHourHigh |-> high] : high \in CreditValues}
        \cup {[creditHourLow |-> low, creditHourHigh |-> high] :
                  low \in CreditValues, high \in CreditValues}

InitNorm ==
    /\ pc = "parse_meeting_times"
    /\ attempt = 1
    /\ auth_success = FALSE
    /\ authResult = "none"
    /\ reqs = << >>
    /\ max_pages = 0
    /\ page_offset = 0
    /\ page_count = 0
    /\ all_courses = << >>
    /\ fetched = << >>
    /\ stop = "none"
    /\ i = 0
    /\ meeting_data \in MeetingDatas
    /\ meetingResp = NoResp
    /\ enrollResp = NoResp
    /\ enriched_courses = << >>
    /\ returned = "nothing"
    /\ ParseIdle
    /\ SaveIdle
    /\ raw_course \in CreditCourses
    /\ normalized = EmptyDict

NormStep(from, to, name, value) ==
    /\ pc = from
    /\ pc' = to
    /\ normalized' = normalized @@ (name :> value)
    /\ UNCHANGED <<scrapeVars, parseVars, fileVars, saveVars, raw_course>>

\* meeting_components = self.parse_meeting_times_for_csv(meeting_data), with
\* the lists the function collected on its way
ParseMeetingTimes ==
    NormStep("parse_meeting_times", "extract_instructor", "meeting_components",
             [all_days       |-> AllOf(DaysOfMeeting),
              all_times      |-> AllOf(TimeOfMeeting),
              all_campuses   |-> AllOf(CampusOfMeeting),
              all_classrooms |-> AllOf(ClassroomOfMeeting),
              result         |-> parse_meeting_times_for_csv(meeting_data)])

\* instructor = self.extract_instructor(meeting_data)
ExtractInstructor ==
    NormStep("extract_instructor", "format_credit_hours", "instructor",
             extract_instructor(meeting_data))

\* credit_low, credit_high, credits_formatted = self.format_credit_hours(course)
FormatCreditHours ==
    NormStep("format_credit_hours", "normalized", "credits",
             format_credit_hours(raw_course))

NextNorm ==
    \/ ParseMeetingTimes
    \/ ExtractInstructor
    \/ FormatCreditHours

NormSpec == InitNorm /\ [][NextNorm]_vars

(***************************************************************************)
(* Properties of the authorization retry loop and of one attempt.          *)
(***************************************************************************)
AuthPositions ==
    {"get_class_search", "get_term_selection", "post_term", "get_forward",
     "resubmit_term", "get_direct", "auth_returned"}

PipelinePositions == {"search", "search_returned", "meeting", "enrollment"}

NothingFetched ==
    /\ page_count = 0
    /\ fetched = << >>
    /\ all_courses = << >>
    /\ meetingResp = NoResp
    /\ enrollResp = NoResp
    /\ enriched_courses = << >>

\* the attempt under way has ended: it returned, or an exception left it
AttemptEnded == ~auth_success /\ pc \in {"auth_returned", "raised"}

\* r is a response without transport or HTTP error whose body is a JSON object
IsObject(r) == r.net = "ok" /\ ~RaisesForStatus(r) /\ r.body.kind = "json" /\ r.body.obj

\* the first term POST of the attempt was sent and answered, without
\* transport or HTTP error, with a JSON object
FirstPostObject == Len(reqs) >= 3 /\ IsObject(FirstPost)

\* C1: the authorization sequence is attempted at most 3 times and stops at
\* the first attempt that ends Authorized (the loop then goes on to the
\* search and no attempt is under way once auth_success is set); when the
\* third attempt ends Failed the scrape returns the empty list, and no
\* course-search or enrichment request is ever sent without authorization.
C1_AuthRetry ==
    /\ [](/\ attempt \in 1..MaxAttempts
          /\ (pc \in AuthPositions => ~auth_success)
          /\ (pc \in PipelinePositions => auth_success)
          /\ (~auth_success => NothingFetched)
          /\ (pc = "done" /\ ~auth_success => attempt = MaxAttempts /\ returned = << >>))
    /\ [][/\ (pc = "auth_returned" /\ authResult = "Authorized"
                 => pc' = "search" /\ auth_success' /\ attempt' = attempt)
          /\ (pc = "auth_returned" /\ authResult = "Failed" /\ attempt < MaxAttempts
                 => pc' = "get_class_search" /\ attempt' = attempt + 1)
          /\ (pc = "auth_returned" /\ authResult = "Failed" /\ attempt = MaxAttempts
                 => pc' = "done" /\ returned' = << >>)]_vars

C1_Witness == pc = "done" /\ ~auth_success /\ attempt = MaxAttempts /\ returned = << >>

\* C2: within one attempt the requests are GET class-search page, GET
\* term-selection page, POST term, in that order; a term POST is only sent
\* after both GETs succeeded, and a transport or HTTP error on either GET
\* ends the attempt Failed with no POST.
C2_RequestOrder ==
    /\ (Len(reqs) >= 1 => reqs[1].req = "GET classSearch")
    /\ (Len(reqs) >= 2 => reqs[2].req = "GET termSelection")
    /\ (Len(reqs) >= 3 => reqs[3].req = "POST term")
    /\ \A k \in 1..Len(reqs) :
          /\ (reqs[k].req = "POST term"
                 => k >= 3 /\ ~FailedRequest(reqs[1].resp) /\ ~FailedRequest(reqs[2].resp))
          /\ (k <= 2 /\ FailedRequest(reqs[k].resp)
                 => Len(reqs) = k /\ pc = "auth_returned" /\ authResult = "Failed")

C2_Witness ==
    /\ pc = "auth_returned"
    /\ Len(reqs) = 2
    /\ FailedRequest(reqs[2].resp)
    /\ authResult = "Failed"

\* C3: when the first term POST is answered (no transport or HTTP error)
\* with a JSON object that has a truthy success flag or contains
\* regAllowed, the attempt ends Authorized and that POST is its last request.
C3_SuccessIndicators ==
    (FirstPostObject /\ SignalsSuccess(FirstPost.body.dict))
        => /\ pc = "auth_returned"
           /\ authResult = "Authorized"
           /\ Len(reqs) = 3

C3_Witness ==
    /\ FirstPostObject
    /\ "regAllowed" \in DOMAIN FirstPost.body.dict
    /\ ~Get(FirstPost.body.dict, "success", FALSE)
    /\ "fwdURL" \in DOMAIN FirstPost.body.dict
    /\ authResult = "Authorized"

\* the first term POST was answered with a JSON object that does not signal
\* success and carries the forward URL u
ForwardedTo(u) ==
    /\ FirstPostObject
    /\ ~SignalsSuccess(FirstPost.body.dict)
    /\ Get(FirstPost.body.dict, "fwdURL", "") = u

\* the resubmitted term POST was answered with a JSON object that signals success
ResubmitSignalsSuccess ==
    /\ Len(reqs) = 5
    /\ reqs[5].resp.net = "ok"
    /\ reqs[5].resp.body.kind = "json"
    /\ reqs[5].resp.body.obj
    /\ SignalsSuccess(reqs[5].resp.body.dict)

\* C4: when the first term POST returns a JSON object with a forward URL
\* that is not the null-sentinel path, the attempt GETs that URL, then
\* resubmits the term POST exactly once, and ends Authorized if the
\* resubmit response signals success and Failed for every other resubmit
\* response (a second forward URL, a body that is not JSON, ...).
C4_ForwardThenResubmit ==
    \A u \in FwdValues \ {"", NullPath} :
        (AttemptEnded /\ ForwardedTo(u))
            => /\ Len(reqs) \in {4, 5}
               /\ reqs[4].req = "GET " \o ForwardTarget(u)
               /\ (Len(reqs) = 5 <=> ~FailedRequest(reqs[4].resp))
               /\ (Len(reqs) = 5 => reqs[5].req = "POST term")
               /\ pc = "auth_returned"
               /\ authResult = IF ResubmitSignalsSuccess THEN "Authorized" ELSE "Failed"

\* C5: when the first term POST returns a JSON object whose forward URL is
\* the null-sentinel path, the attempt sends one direct GET of the
\* class-search page and nothing after it, and ends Authorized if that GET
\* returns HTTP 200 and Failed otherwise; the term POST is not resubmitted.
C5_NullForward ==
    ForwardedTo(NullPath)
        => /\ pc \in {"get_direct", "auth_returned"}
           /\ (pc = "get_direct" => Len(reqs) = 3)
           /\ (pc = "auth_returned"
                  => /\ Len(reqs) = 4
                     /\ reqs[4].req = "GET classSearch"
                     /\ authResult =
                           IF reqs[4].resp.net = "ok" /\ reqs[4].resp.status = 200
                              THEN "Authorized" ELSE "Failed")

C5_Witness ==
    /\ ForwardedTo(NullPath)
    /\ pc = "auth_returned"
    /\ reqs[4].resp.net = "ok"
    /\ reqs[4].resp.status = 204
    /\ authResult = "Failed"

\* the body is JSON the attempt does not expect: not an object, or an
\* object with none of success, regAllowed, fwdURL
UnexpectedPayload(r) ==
    /\ r.net = "ok"
    /\ r.body.kind = "json"
    /\ (r.body.obj => DOMAIN r.body.dict \cap {"success", "regAllowed", "fwdURL"} = {})

\* C6: every attempt ends in exactly one of Authorized or Failed: a network
\* error at any step and an unexpected payload (a JSON object with none of
\* success, regAllowed, fwdURL, or JSON that is not an object) yield
\* Failed, and no error escapes the attempt.
C6_AlwaysAVerdict ==
    AttemptEnded
        => /\ pc = "auth_returned"
           /\ authResult \in {"Authorized", "Failed"}
           /\ \A k \in 1..Len(reqs) :
                 (reqs[k].resp.net = "error" \/ UnexpectedPayload(reqs[k].resp))
                     => k = Len(reqs) /\ authResult = "Failed"

(***************************************************************************)
(* Properties of the paginated search.                                     *)
(***************************************************************************)
\* the page was decoded and its object has a truthy success flag
SuccessfulPage(r) == ~FetchRaises(r) /\ r.body.obj /\ Get(r.body.dict, "success", FALSE)

\* the page is a non-success response: the fetch raised, or the object has
\* no truthy success flag
NonSuccessPage(r) ==
    \/ FetchRaises(r)
    \/ r.body.obj /\ ~Get(r.body.dict, "success", FALSE)

RowsOf(r) == Get(r.body.dict, "data", << >>)

NumFetches == Len(fetched)

PageOf(k) == fetched[k].response

LoopLeft == pc = "search_returned"

\* the ceiling is reached with the k-th fetch
AtCeiling(k) == max_pages # 0 /\ k >= max_pages

\* the k-th fetch is followed by a fetch at the next offset, or will be
FetchFollows(k) ==
    /\ k = NumFetches => pc = "search" /\ page_offset = fetched[k].pageOffset + PageMaxSize
    /\ k < NumFetches => fetched[k + 1].pageOffset = fetched[k].pageOffset + PageMaxSize

\* C7, as stated: a successful page of exactly pageMaxSize rows triggers
\* another fetch at the next offset, and a successful page of fewer rows
\* stops pagination with no further fetch.
C7_FullPageAlwaysContinues ==
    \A k \in 1..NumFetches :
        SuccessfulPage(PageOf(k))
            => /\ (Len(RowsOf(PageOf(k))) = PageMaxSize => FetchFollows(k))
               /\ (Len(RowsOf(PageOf(k))) < PageMaxSize => k = NumFetches /\ LoopLeft)

\* C7, amended: a successful page of exactly pageMaxSize rows triggers
\* another fetch at the next offset unless the max_pages ceiling is reached
\* with it, in which case pagination stops; a successful page of fewer rows
\* stops pagination with no further fetch.
C7_FullPageContinuesBelowCeiling ==
    \A k \in 1..NumFetches :
        SuccessfulPage(PageOf(k))
            => /\ (Len(RowsOf(PageOf(k))) = PageMaxSize /\ ~AtCeiling(k) => FetchFollows(k))
               /\ (Len(RowsOf(PageOf(k))) = PageMaxSize /\ AtCeiling(k)
                      => k = NumFetches /\ LoopLeft)
               /\ (Len(RowsOf(PageOf(k))) < PageMaxSize => k = NumFetches /\ LoopLeft)

C7_Witness ==
    /\ NumFetches = 3
    /\ max_pages = 0
    /\ SuccessfulPage(PageOf(1)) /\ Len(RowsOf(PageOf(1))) = PageMaxSize
    /\ SuccessfulPage(PageOf(2)) /\ Len(RowsOf(PageOf(2))) = PageMaxSize
    /\ SuccessfulPage(PageOf(3)) /\ Len(RowsOf(PageOf(3))) = 1
    /\ LoopLeft

\* C8: the loop is left only for a page with zero rows, a page with fewer
\* rows than the page size, the ceiling reached, or a failed page; with a
\* positive max_pages there are never more than max_pages fetches; the
\* k-th fetch asks for pageOffset (k-1)*pageMaxSize.
C8_StopReasons ==
    /\ page_count = NumFetches
    /\ (max_pages > 0 => NumFetches <= max_pages)
    /\ \A k \in 1..NumFetches : fetched[k].pageOffset = (k - 1) * PageMaxSize
    /\ (LoopLeft =>
          LET last == PageOf(NumFetches)
          IN  \/ stop = "empty" /\ SuccessfulPage(last) /\ RowsOf(last) = << >>
              \/ stop = "short" /\ SuccessfulPage(last) /\ Len(RowsOf(last)) < PageMaxSize
              \/ stop = "ceiling" /\ SuccessfulPage(last) /\ AtCeiling(NumFetches)
              \/ stop = "failed" /\ NonSuccessPage(last))
    /\ (~LoopLeft => stop = "none")

C8_Witness ==
    /\ LoopLeft
    /\ stop = "ceiling"
    /\ max_pages = 3
    /\ NumFetches = 3
    /\ Len(RowsOf(PageOf(3))) = PageMaxSize

RECURSIVE RowsOfFirst(_)
RowsOfFirst(k) == IF k = 0 THEN << >> ELSE RowsOfFirst(k - 1) \o RowsOf(PageOf(k))

CrnOf(course) == course["courseReferenceNumber"]

\* the records emitted so far are those of the first n raw courses, in order
EmittedFor(records, n) ==
    /\ Len(records) = n
    /\ \A k \in 1..n : records[k].course_reference_number = CrnOf(all_courses[k])

MeetingDefaults(record) ==
    /\ record.days = "TBA"
    /\ record.time = "TBA"
    /\ record.campus = "TBA"
    /\ record.classroom = "TBA"
    /\ record.instructor = "TBA"

\* C10: once authorized, the scrape emits exactly one CourseSection per raw
\* course the search returned, in the same order, whichever sub-fetches
\* fail: a failed meeting-time fetch gives an empty meeting_data and a
\* record with the meeting fields defaulted, a failed enrollment fetch gives
\* an empty enrollment_info, and the record is emitted all the same.
C10_NoRecordDropped ==
    /\ (pc = "meeting" => EmittedFor(enriched_courses, i - 1))
    /\ (pc = "enrollment"
           => /\ EmittedFor(enriched_courses, i - 1)
              /\ (FetchRaises(meetingResp) => meeting_data = EmptyDict))
    /\ (pc = "done" /\ auth_success
           => /\ EmittedFor(returned, Len(all_courses))
              /\ returned = enriched_courses)
    /\ (pc \in {"meeting", "done"} /\ enriched_courses # << >>
           => LET last == enriched_courses[Len(enriched_courses)]
              IN  /\ (FetchRaises(meetingResp) => MeetingDefaults(last))
                  /\ (FailedRequest(enrollResp) => last.enrollment_info = EmptyDict))
    /\ (pc = "raised" /\ auth_success => enriched_courses = << >> /\ i = 0)

C10_Witness ==
    /\ pc = "done"
    /\ auth_success
    /\ Len(returned) = MaxCourses
    /\ returned[1].course_reference_number # returned[2].course_reference_number
    /\ meetingResp = NetError
    /\ enrollResp = NetError
    /\ returned[1].days # "TBA"
    /\ returned[2].enrollment_info # EmptyDict

\* the record emitted for the course whose enrollment fetch was answered last
LastEmitted == enriched_courses[Len(enriched_courses)]

\* the enrollment fetch answered last returned an empty result or an error
EnrollmentFetchEmpty ==
    /\ pc \in {"meeting", "done"}
    /\ enriched_courses # << >>
    /\ get_enrollment_info(enrollResp) = EmptyDict

\* C11: when the enrollment fetch of a course returns an empty result or an
\* error, the record emitted for that course is in the output and each of
\* its six enrollment fields (enrollment actual, maximum and seats
\* available, waitlist capacity, actual and seats available) is "N/A".
C11_EnrollmentFieldsNA ==
    EnrollmentFetchEmpty
        => /\ LastEmitted.course_reference_number = CrnOf(all_courses[Len(enriched_courses)])
           /\ DOMAIN LastEmitted.enrollment_info = EnrollmentFields
           /\ \A f \in EnrollmentFields : LastEmitted.enrollment_info[f] = "N/A"

(***************************************************************************)
(* Properties of parse_enrollment_html.                                    *)
(***************************************************************************)
LabelsOf(f) == {k \in 1..Len(html_content) : html_content[k] = LabelSpan(f)}

\* no label of field f in the fragment
FieldAbsent(f) == LabelsOf(f) = {}

\* the fragment has one label of field f, with a value span right after it
PairPresent(f) ==
    /\ Cardinality(LabelsOf(f)) = 1
    /\ \E k \in LabelsOf(f) : k < Len(html_content) /\ html_content[k + 1].span = "value"

PairValue(f) == html_content[Min(LabelsOf(f)) + 1].text

\* C12: parse_enrollment_html defaults each of the six enrollment fields to
\* "N/A" on its own: the result has exactly the six keys, a field with no
\* label in the fragment is "N/A", and a field whose label/value pair is in
\* the fragment has the value of that pair, whichever other fields are
\* missing.
C12_FieldsIndependent ==
    pc = "parsed"
        => /\ DOMAIN enrollment_info = EnrollmentFields
           /\ \A f \in EnrollmentFields :
                /\ (FieldAbsent(f) => enrollment_info[f] = "N/A")
                /\ (PairPresent(f) => enrollment_info[f] = PairValue(f))

(***************************************************************************)
(* Properties of compare_course_files.  The old snapshot is backup, the    *)
(* new one is file.                                                        *)
(***************************************************************************)
\* the comparison of two snapshots has returned
Compared == pc = "compared" /\ backup.exists /\ file.exists

\* the CRNs of the rows of a snapshot file
KeysOf(f) == {f.rows[k]["CRN"] : k \in 1..Len(f.rows)}

OldKeys == KeysOf(backup)

NewKeys == KeysOf(file)

CommonKeys == OldKeys \cap NewKeys

CrnsOfCourses(courseSet) == {course["CRN"] : course \in courseSet}

CrnsOfChanges(changeSet) == {record.CRN : record \in changeSet}

AddedKeys == CrnsOfCourses(comparison_result.added_courses)

RemovedKeys == CrnsOfCourses(comparison_result.removed_courses)

ChangedKeys ==
    CrnsOfChanges(comparison_result.time_location_changes)
        \cup CrnsOfChanges(comparison_result.enrollment_changes)

\* C13: for every pair of old and new snapshots, the CRNs of added, of
\* removed and the common CRNs partition the union of the old and the new
\* keys, added and removed are disjoint, and a CRN of the old snapshot only
\* is in removed, not in added, not common and in no change list.
C13_KeyPartition ==
    Compared
        => /\ AddedKeys \cup RemovedKeys \cup CommonKeys = OldKeys \cup NewKeys
           /\ AddedKeys \cap RemovedKeys = {}
           /\ AddedKeys \cap CommonKeys = {}
           /\ RemovedKeys \cap CommonKeys = {}
           /\ ChangedKeys \subseteq CommonKeys
           /\ \A crn \in OldKeys \ NewKeys :
                /\ crn \in RemovedKeys
                /\ crn \notin AddedKeys
                /\ crn \notin CommonKeys
                /\ crn \notin ChangedKeys

C13_Witness ==
    /\ Compared
    /\ OldKeys = {"100", "200"}
    /\ NewKeys = {"100"}
    /\ RemovedKeys = {"200"}
    /\ AddedKeys = {}
    /\ "100" \in ChangedKeys

\* the comparison the other way round: the new snapshot given as the old one
Swapped == compare_course_files(file, backup)

SwapOf(change) == [old |-> change.new, new |-> change.old]

SwappedRecord(record) ==
    [CRN |-> record.CRN,
     changes |-> [field \in DOMAIN record.changes |-> SwapOf(record.changes[field])]]

\* C14: compare_course_files is symmetric-consistent: comparing (new, old)
\* instead of (old, new) exchanges added and removed exactly, keeps the
\* CRNs of each change list, and gives for every changed field the same
\* pair with its old and new values swapped.
C14_SwapSymmetric ==
    Compared
        => /\ Swapped.added_courses = comparison_result.removed_courses
           /\ Swapped.removed_courses = comparison_result.added_courses
           /\ Swapped.time_location_changes =
                  {SwappedRecord(record) : record \in comparison_result.time_location_changes}
           /\ Swapped.enrollment_changes =
                  {SwappedRecord(record) : record \in comparison_result.enrollment_changes}

C14_Witness ==
    /\ Compared
    /\ comparison_result.removed_courses # {}
    /\ comparison_result.time_location_changes # {}
    /\ comparison_result.enrollment_changes # {}
    /\ Swapped.added_courses = comparison_result.removed_courses
    /\ \E record \in Swapped.time_location_changes :
           \E field \in DOMAIN record.changes : record.changes[field].new = "MW"

\* the row dicts the differ holds for a CRN: the rows as read from the files
OldCourse(crn) == CoursesByCRN(read_csv(backup))[crn]

NewCourse(crn) == CoursesByCRN(read_csv(file))[crn]

\* the value of a field of a row dict, as a trimmed string
Trimmed(course, field) == Strip(course[field])

DifferingFields(crn) ==
    {field \in TimeLocationFields :
        Trimmed(OldCourse(crn), field) # Trimmed(NewCourse(crn), field)}

TimeLocationRecords(crn) ==
    {record \in comparison_result.time_location_changes : record.CRN = crn}

\* C15: for each common CRN, a time-location change record is emitted iff
\* at least one of Days, Time, Campus, Classroom differs between the old and
\* the new row as trimmed strings; the changes map of the record has an
\* {old, new} pair for exactly the differing fields, and no entry for a
\* field that is equal.
C15_TimeLocationRecord ==
    Compared
        => \A crn \in CommonKeys :
             /\ (TimeLocationRecords(crn) # {} <=> DifferingFields(crn) # {})
             /\ Cardinality(TimeLocationRecords(crn)) <= 1
             /\ \A record \in TimeLocationRecords(crn) :
                  /\ DOMAIN record.changes = DifferingFields(crn)
                  /\ \A field \in DifferingFields(crn) :
                       record.changes[field] =
                           [old |-> Trimmed(OldCourse(crn), field),
                            new |-> Trimmed(NewCourse(crn), field)]

\* Days MW -> TR with equal Time, and a Classroom that differs by a trailing
\* blank only: Days alone is reported
C15_Witness ==
    /\ Compared
    /\ Len(backup.rows) = 1
    /\ Len(file.rows) = 1
    /\ backup.rows[1]["Time"] = file.rows[1]["Time"]
    /\ backup.rows[1]["Classroom"] # file.rows[1]["Classroom"]
    /\ comparison_result.time_location_changes =
           {[CRN |-> "100", changes |-> [Days |-> [old |-> "MW", new |-> "TR"]]]}

\* the rows of a snapshot file with a CRN, and the text of a cell of the one
\* row of a CRN that the file lists once
RowsWith(f, crn) == {k \in 1..Len(f.rows) : f.rows[k]["CRN"] = crn}

ListedOnce(crn) ==
    Cardinality(RowsWith(backup, crn)) = 1 /\ Cardinality(RowsWith(file, crn)) = 1

CellOf(f, crn, column) == f.rows[Min(RowsWith(f, crn))][column]

\* the fields a change list reports for a CRN
ReportedFields(changeSet, crn) ==
    UNION {DOMAIN record.changes : record \in {r \in changeSet : r.CRN = crn}}

\* C16: for every pair of snapshot files and every common CRN, no
\* enrollment difference is reported for a field (Enrollment Actual,
\* Enrollment Maximum) whose value is "N/A" in the old or in the new
\* snapshot file.
C16_NoEnrollmentChangeOnNA ==
    Compared
        => \A crn \in {c \in CommonKeys : ListedOnce(c)} :
             \A field \in EnrollmentColumns :
                (CellOf(backup, crn, field) = "N/A" \/ CellOf(file, crn, field) = "N/A")
                    => field \notin ReportedFields(comparison_result.enrollment_changes, crn)

\* the text a cell is compared as: trimmed, "N/A" for a field the row lacks
ComparedText(text) == IF text = "" THEN "N/A" ELSE Strip(text)

\* C17: the differ compares the values of the compared fields as exact
\* strings after trimming, without type coercion: for a common CRN, a field
\* whose text is the same (after trimming) in the old and the new snapshot
\* file is never reported as changed, whatever the other rows of the files
\* hold, a field absent from a row counting as the literal "N/A".
C17_SameTextNeverReported ==
    Compared
        => \A crn \in {c \in CommonKeys : ListedOnce(c)} :
             \A field \in TimeLocationFields \cup EnrollmentColumns :
                ComparedText(CellOf(backup, crn, field)) = ComparedText(CellOf(file, crn, field))
                    => /\ field \notin ReportedFields(comparison_result.time_location_changes, crn)
                       /\ field \notin ReportedFields(comparison_result.enrollment_changes, crn)

(***************************************************************************)
(* Properties of save_to_csv and of the files it leaves.                   *)
(***************************************************************************)
\* completed runs so far, and the snapshots the last two of them wrote
Runs == Len(written)

LatestSnapshot == written[Runs]

PrecedingSnapshot == written[Runs - 1]

\* a run has returned and none is under way
BetweenRuns == pc = "idle" /\ Runs >= 1

\* C18: without a prior snapshot file, comparison returns a report whose
\* four lists (added, removed, time-location changed, enrollment changed)
\* are all empty instead of failing, both when compare_course_files is
\* called directly and when the first-ever save_to_csv runs.
C18_NoPriorSnapshotEmptyReport ==
    BetweenRuns
        => /\ compare_course_files(NoFile, file) = EmptyComparison
           /\ (Runs = 1 /\ compare_with_existing => comparison_result = EmptyComparison)

\* C19: a run of save_to_csv with comparison enabled that finds the
\* snapshot file renames it to the backup before it writes the new
\* snapshot, whatever backup was there; so after any sequence of completed
\* runs the file holds the snapshot of the latest run, and after such a run
\* the backup holds exactly the snapshot the preceding run wrote and the
\* diff returned is the one between those two.
C19_BackupIsPrecedingSnapshot ==
    /\ (pc \in {"open_file", "write_rows", "compare_files"} /\ backed_up
           => backup = LatestSnapshot)
    /\ (pc = "open_file" /\ backed_up => ~file.exists)
    /\ (BetweenRuns => file = LatestSnapshot)
    /\ (BetweenRuns /\ Runs >= 2 /\ compare_with_existing
           => /\ backup = PrecedingSnapshot
              /\ comparison_result = compare_course_files(PrecedingSnapshot, LatestSnapshot))

C19_Witness ==
    /\ BetweenRuns
    /\ Runs = MaxRuns
    /\ compare_with_existing
    /\ written[1] # PrecedingSnapshot
    /\ backup = PrecedingSnapshot
    /\ file = LatestSnapshot
    /\ comparison_result.added_courses # {}
    /\ comparison_result.time_location_changes # {}

\* the process died between the rename to the backup name and the opening
\* of the new file
CrashedBetweenRenameAndWrite == pc = "crashed at open_file" /\ backed_up

\* the process died before the rename, the old backup, if any, removed
CrashedBeforeRename == pc = "crashed at move_file"

\* a backup that is not the snapshot that preceded the file being written
StaleBackup == backup.exists /\ backup # LatestSnapshot

Aborted == pc = "raised" \/ (pc = "done" /\ returned = << >>)

AllAttemptsFailed == ~auth_success /\ attempt = MaxAttempts

SearchReturnedNoRows == auth_success /\ all_courses = << >>

\* C21: a run ends without a result only when all three authorization
\* attempts failed or the search collected no rows; once the search has
\* collected rows, no later page and no enrichment fetch, whatever it is
\* answered, ends the run without a result.
C21_OnlyAuthAndEmptySearchAbort ==
    Aborted => AllAttemptsFailed \/ SearchReturnedNoRows

\* C22: in the list a run returns, every CRN occurs at most once, whatever
\* pages the search was answered with.
C22_CrnUniqueInOutput ==
    pc = "done"
        => \A j, k \in 1..Len(returned) :
               j # k => returned[j].course_reference_number
                            # returned[k].course_reference_number



(***************************************************************************)
(* Properties of the record normalizer.                                    *)
(***************************************************************************)
MeetingComponents == normalized["meeting_components"]

Parsed == "meeting_components" \in DOMAIN normalized

RECURSIVE SemicolonJoin(_)
SemicolonJoin(values) ==
    IF values = << >> THEN ""
    ELSE IF Len(values) = 1 THEN values[1]
    ELSE SemicolonJoin(SubSeq(values, 1, Len(values) - 1)) \o "; " \o values[Len(values)]

NotTBA(value) == value # "TBA"

AllTBA(values) == \A k \in 1..Len(values) : values[k] = "TBA"

Aggregated(values, result) ==
    /\ result = IF AllTBA(values) THEN "TBA" ELSE SemicolonJoin(SelectSeq(values, NotTBA))
    /\ result = "TBA" <=> AllTBA(values)

\* C23: each of days, time, campus and classroom returned by
\* parse_meeting_times_for_csv is the per-meeting values joined with "; " in
\* meeting order with every "TBA" entry removed, and is "TBA" exactly when
\* every per-meeting value is "TBA" or there is no meeting.
C23_MeetingAggregation ==
    Parsed =>
        /\ Aggregated(MeetingComponents.all_days, MeetingComponents.result.days)
        /\ Aggregated(MeetingComponents.all_times, MeetingComponents.result.time)
        /\ Aggregated(MeetingComponents.all_campuses, MeetingComponents.result.campus)
        /\ Aggregated(MeetingComponents.all_classrooms, MeetingComponents.result.classroom)

C23_Witness ==
    /\ Parsed
    /\ MeetingComponents.all_days = <<"TR", "M">>
    /\ MeetingComponents.result.days = "TR; M"
    /\ MeetingComponents.all_times = <<"1300 - 1415", "0900">>
    /\ MeetingComponents.all_campuses = <<"OAK", "TBA">>
    /\ MeetingComponents.result.campus = "OAK"
    /\ MeetingComponents.result.classroom = "LIB 12; Science Hall"



DayCodes == "MTWRFSU"

CodeOf ==
    [monday |-> "M", tuesday |-> "T", wednesday |-> "W", thursday |-> "R",
     friday |-> "F", saturday |-> "S", sunday |-> "U"]

SetFlags(meeting_time) == {d \in DOMAIN CodeOf : Get(meeting_time, d, FALSE)}

CharsOf(text) == {SubSeq(text, k, k) : k \in 1..Len(text)}

PositionOf(code) == CHOOSE p \in 1..Len(DayCodes) : SubSeq(DayCodes, p, p) = code

\* text holds exactly the codes of the days, each once, in the order of MTWRFSU
InFixedOrder(text, days) ==
    /\ Len(text) = Cardinality(days)
    /\ CharsOf(text) = {CodeOf[d] : d \in days}
    /\ \A j, k \in 1..Len(text) :
           j < k => PositionOf(SubSeq(text, j, j)) < PositionOf(SubSeq(text, k, k))

\* C24: for every meeting, extract_days_of_week returns the codes of the
\* set day flags in the fixed order M,T,W,R,F,S,U; when no flag is set it
\* returns the meetingTimeType field, and "TBA" when that is absent too.
C24_DaysInFixedOrder ==
    Parsed =>
        \A k \in 1..Len(MeetingComponents.all_days) :
            LET meeting_time == MeetingTimeOf(meeting_data["fmt"][k])
                days         == MeetingComponents.all_days[k]
            IN  IF SetFlags(meeting_time) # {}
                   THEN InFixedOrder(days, SetFlags(meeting_time))
                ELSE IF "meetingTimeType" \in DOMAIN meeting_time
                   THEN days = meeting_time["meetingTimeType"]
                ELSE days = "TBA"

C24_Witness ==
    /\ Parsed
    /\ meeting_data = [fmt |-> <<[meetingTime |-> DayFlags({"sunday", "tuesday", "friday"})]>>]
    /\ MeetingComponents.all_days = <<"TFU">>



Credits == normalized["credits"]

\* no value: the key missing, null, or the empty string
EmptyCredit(key) ==
    \/ key \notin DOMAIN raw_course
    \/ raw_course[key] \in {JsonNull, JsonString("")}

CreditLow == raw_course["creditHourLow"]

CreditHigh == raw_course["creditHourHigh"]

\* C25: the formatted credit is "TBA" iff both credit hours are empty; equal
\* low and high give the single value, both present and different give
\* "low-high", and exactly one present gives that value.
C25_CreditFormatting ==
    "credits" \in DOMAIN normalized =>
        /\ Credits.formatted = JsonString("TBA")
               <=> EmptyCredit("creditHourLow") /\ EmptyCredit("creditHourHigh")
        /\ ~EmptyCredit("creditHourLow") /\ ~EmptyCredit("creditHourHigh")
               => Credits.formatted =
                      IF CreditLow = CreditHigh THEN CreditLow
                      ELSE JsonString(StrOf(CreditLow) \o "-" \o StrOf(CreditHigh))
        /\ ~EmptyCredit("creditHourLow") /\ EmptyCredit("creditHourHigh")
               => Credits.formatted = CreditLow
        /\ EmptyCredit("creditHourLow") /\ ~EmptyCredit("creditHourHigh")
               => Credits.formatted = CreditHigh



\* the display names of the faculty lists of the first n meetings, in order
RECURSIVE DisplayNames(_)
DisplayNames(n) ==
    IF n = 0 THEN << >>
    ELSE LET meeting == meeting_data["fmt"][n]
             faculty == IF "faculty" \in DOMAIN meeting THEN meeting["faculty"] ELSE << >>
         IN  DisplayNames(n - 1) \o [k \in 1..Len(faculty) |-> faculty[k]["displayName"]]

\* the first n names with every repetition of an earlier name left out
RECURSIVE FirstSeen(_, _)
FirstSeen(names, n) ==
    IF n = 0 THEN << >>
    ELSE IF \E j \in 1..(n - 1) : names[j] = names[n] THEN FirstSeen(names, n - 1)
    ELSE Append(FirstSeen(names, n - 1), names[n])

CollectedNames ==
    IF NoMeetings(meeting_data) THEN << >>
    ELSE LET names == DisplayNames(Len(meeting_data["fmt"]))
         IN  FirstSeen(names, Len(names))

\* C26: extract_instructor returns the displayName values of all meetings'
\* faculty lists joined by "; ", in first-seen order, each distinct name
\* (exact string match) once, and "TBA" iff no display name was collected.
C26_InstructorsFirstSeenOnce ==
    "instructor" \in DOMAIN normalized =>
        /\ CollectedNames # << >>
               => normalized["instructor"] = SemicolonJoin(CollectedNames)
        /\ normalized["instructor"] = "TBA" <=> CollectedNames = << >>

C26_Witness ==
    /\ "instructor" \in DOMAIN normalized
    /\ ~NoMeetings(meeting_data)
    /\ Len(meeting_data["fmt"]) = 2
    /\ DisplayNames(2) = <<"Ada", "Ada", "ada">>
    /\ normalized["instructor"] = "Ada; ada"



(***************************************************************************)
(* Properties of the file system while save_to_csv runs, or after the      *)
(* process died in it.                                                     *)
(***************************************************************************)
CrashedPositions == {"crashed at " \o position : position \in SavePositions}

\* inside a call of save_to_csv that found a snapshot of an earlier run:
\* LatestSnapshot is the content the snapshot file had when it was called
InsideComparingSave ==
    /\ pc \in SavePositions \cup CrashedPositions
    /\ compare_with_existing
    /\ Runs >= 1

\* C27: at every point inside save_to_csv with comparison enabled (the old
\* backup removed, the file renamed, the new file opened, written), and
\* after a crash at any of them, the snapshot that existed before the call
\* is on disk under the snapshot name or under the backup name.
C27_PreviousSnapshotNeverLost ==
    InsideComparingSave => file = LatestSnapshot \/ backup = LatestSnapshot

C27_Witness ==
    /\ pc = "crashed at write_rows"
    /\ compare_with_existing
    /\ Runs = 2
    /\ written[1] # written[2]
    /\ LatestSnapshot.rows # << >>
    /\ file = TruncatedFile
    /\ backup = LatestSnapshot



(***************************************************************************)
(* Order of the requests of one run.                                       *)
(***************************************************************************)
\* the step sends a course-search request
SearchRequest == Len(fetched') > Len(fetched)

\* the step sends the meeting-time request of course i
MeetingRequest == pc = "meeting" /\ pc' # pc

\* the step sends the enrollment request of course i
EnrollmentRequest == pc = "enrollment" /\ pc' # pc

RequestOrderStep ==
    /\ (auth_success' /\ ~auth_success => authResult = "Authorized")
    /\ (SearchRequest => auth_success /\ i = 0)
    /\ i' >= i
    /\ (MeetingRequest \/ EnrollmentRequest => i >= 1 /\ ~SearchRequest)
    /\ (MeetingRequest
           => /\ Len(enriched_courses) = i - 1
              /\ pc' = "enrollment"
              /\ i' = i)
    /\ (EnrollmentRequest
           => /\ Len(enriched_courses') = i
              /\ \/ pc' = "meeting" /\ i' = i + 1
                 \/ pc' = "done" /\ i = Len(all_courses))
    /\ (pc' = "enrollment" /\ pc' # pc => MeetingRequest)
    /\ (pc' = "meeting" /\ pc' # pc /\ ~EnrollmentRequest
           => pc = "search_returned" /\ i' = 1)

\* C28: no course-search request is sent before an authorization attempt
\* ended Authorized; no enrichment request is sent before the last search
\* page fetch; the courses are enriched in search order, the meeting-time
\* fetch of a course before its enrollment fetch, and that before any fetch
\* for the next course.
C28_RequestsStrictlyOrdered == [][RequestOrderStep]_vars

C28_Witness ==
    /\ pc = "enrollment"
    /\ attempt = 2
    /\ auth_success
    /\ Len(all_courses) = MaxCourses
    /\ i = 2
    /\ Len(enriched_courses) = 1



(***************************************************************************)
(* Properties of the differ on snapshots that list a CRN more than once,   *)
(* and on files it cannot read.                                            *)
(***************************************************************************)
\* the last row with a CRN in a snapshot file, as read
LastRowOf(f, crn) == read_csv(f)[Max(RowsWith(f, crn))]

OncePerCrn(courseSet) ==
    \A c1, c2 \in courseSet : c1["CRN"] = c2["CRN"] => c1 = c2

OncePerChange(changeSet) ==
    \A r1, r2 \in changeSet : r1.CRN = r2.CRN => r1 = r2

\* every change of the record opposes the last old row and the last new row
ComparesLastRows(record) ==
    /\ DOMAIN record.changes # {}
    /\ \A field \in DOMAIN record.changes :
           record.changes[field] =
               [old |-> Strip(LastRowOf(backup, record.CRN)[field]),
                new |-> Strip(LastRowOf(file, record.CRN)[field])]

\* C29: when a snapshot lists a CRN on several rows, only the last of them
\* is compared: every added or removed course is the last row of its CRN,
\* every change opposes the last old and the last new row, each CRN is at
\* most once in added, in removed and in each change list, and every change
\* record has a non-empty changes map.
C29_LastRowOfACrnCompared ==
    Compared
        => /\ OncePerCrn(comparison_result.added_courses)
           /\ OncePerCrn(comparison_result.removed_courses)
           /\ OncePerChange(comparison_result.time_location_changes)
           /\ OncePerChange(comparison_result.enrollment_changes)
           /\ \A course \in comparison_result.added_courses :
                  course = LastRowOf(file, course["CRN"])
           /\ \A course \in comparison_result.removed_courses :
                  course = LastRowOf(backup, course["CRN"])
           /\ \A record \in comparison_result.time_location_changes :
                  ComparesLastRows(record)
           /\ \A record \in comparison_result.enrollment_changes :
                  ComparesLastRows(record)

\* the new file lists CRN 100 twice, its last row is the old file's only
\* row, its first row has another Time: nothing is reported
C29_Witness ==
    /\ Compared
    /\ Len(backup.rows) = 1
    /\ Len(file.rows) = 2
    /\ KeysOf(file) = {"100"}
    /\ file.rows[2] = backup.rows[1]
    /\ file.rows[1]["Time"] # backup.rows[1]["Time"]
    /\ comparison_result = EmptyComparison



\* the report for two equal snapshots, for each of the files that can be read
EqualSnapshotReports ==
    {compare_course_files(f, f) : f \in {g \in {backup, file} : ~ReadRaises(g)}}

\* C30: an error raised while the two files are read or keyed (a file that
\* cannot be read, a missing CRN column) is swallowed: the report returned
\* has its four lists empty, as the report for two equal snapshots has,
\* nothing of what was read is reported, and the snapshot file and the
\* backup file are left as they were.
C30_ErrorsGiveEmptyReport ==
    [][ pc = "compare" /\ backup.exists /\ (ReadRaises(backup) \/ ReadRaises(file))
            => /\ pc' = "compared"
               /\ comparison_result' = EmptyComparison
               /\ \A report \in EqualSnapshotReports : comparison_result' = report
               /\ file' = file
               /\ backup' = backup ]_vars

\* the old file lists a course, the new one has rows but no CRN column
C30_Witness ==
    /\ pc = "compared"
    /\ ~ReadRaises(backup)
    /\ backup.rows # << >>
    /\ file.exists
    /\ file.rows # << >>
    /\ "CRN" \notin file.header
    /\ comparison_result = EmptyComparison


=============================================================================
